---------------------------- MODULE Spec2Model ----------------------------
(***************************************************************************)
(* The signaling hub of tiny-stream (setupSignaling in server.ts): the     *)
(* room registry, the per-socket metadata table, and the message and close *)
(* handlers of every WebSocket connection.                                 *)
(*                                                                         *)
(* One step of the model is one run of one handler (Node runs each         *)
(* handler to completion on a single thread), or one change of a socket's  *)
(* readyState made by the transport.  SpecClients puts the browser client  *)
(* (app.ts) behind every socket: one more kind of step is one run of a     *)
(* page's event handler.                                                   *)
(***************************************************************************)
EXTENDS Integers, Sequences, FiniteSets, TLC

VARIABLES
    rooms,       \* Map<string, Room>: room name -> [sender, receivers, code]
    socketMeta,  \* Map<WebSocket, SocketMeta>: socket -> [role, peerId, roomName]
    readyState,  \* ws.readyState of every socket of the pool
    sent,        \* the ws.send() calls of the last handler run, in call order
    last,        \* the event the last step handled: [op, ws, msg]
    crashed,     \* TRUE once a handler has thrown (uncaught: the process dies)
    clients,     \* the environment of this run: the room names and peer ids
                 \* the clients use, how many sockets connect, and how many
                 \* values Math.random() yields, and whether the sockets are
                 \* driven by pages of app.ts:
                 \* [rooms, peerIds, sessions, codes, pages]
    senderGone,  \* history: the names of the rooms whose sender's connection
                 \* has closed since the code of that name was last generated
    page         \* the browser page (app.ts) behind every socket, if the
                 \* sockets are driven by pages: its role,
                 \* its peer connections, and the messages in flight between
                 \* it and the hub: [role, pcs, outbox, inbox]

vars == <<rooms, socketMeta, readyState, sent, last, crashed, clients,
          senderGone, page>>

----------------------------------------------------------------------------
(* Bounds and input alphabets *)

\* Sockets that connect during a run
NumSessions == 3
\* Distinct codes generateRoomCode can return
NumCodes == 1
\* The same two bounds for the runs with two room names
TwoRoomSessions == 2
TwoRoomCodes == 2

Sessions == 1..NumSessions

\* null / undefined of the source, for string-valued fields
Undefined == "<undefined>"
Null == "<null>"

\* room.sender === null
NoSocket == 0

\* Smallest value generateRoomCode can return
CodeMin == 1000

\* JS values of msg.code and room.code: a type tag and a number, so that
\* the strict comparison (!==) distinguishes "1000" from 1000.
Str(n) == <<"string", n>>
Num(n) == <<"number", n>>
NoCode == <<"undefined", 0>>

\* function generateRoomCode(): the values Math.random() can produce,
\* restricted to the first clients.codes of 1000..9999
generateRoomCode == {Str(n) : n \in CodeMin..(CodeMin + clients.codes - 1)}

\* JS truthiness of the string-valued fields
Falsy(v) == v \in {Undefined, Null, ""}

\* truthiness of msg.code: undefined and the number 0 are falsy
FalsyCode(v) == v \in {NoCode, Num(0)}

\* Codes a join message carries: every code a room can have, none, the
\* number 1000 instead of the string, "0000", which no room ever has, and
\* the number 0
CodeInputs == generateRoomCode \cup {NoCode, Num(CodeMin), Str(0), Num(0)}

\* Join messages: the well-formed ones, and one without room and one without role
JoinInputs ==
    {[type |-> "join", room |-> room, role |-> role, code |-> code] :
        room \in clients.rooms, role \in {"sender", "receiver", "viewer"},
        code \in CodeInputs}
    \cup {[type |-> "join", room |-> Undefined, role |-> "receiver", code |-> NoCode],
          [type |-> "join", room |-> "home", role |-> Undefined, code |-> NoCode]}

\* Negotiation messages; the client always supplies a "from" of its own
NegTypes == {"offer", "answer", "ice-candidate"}
RelayInputs ==
    {[type |-> type, to |-> to, from |-> "forged"] :
        type \in NegTypes, to \in clients.peerIds \cup {Undefined}}

\* ws.readyState values (the socket has not connected yet: "UNBORN")
Live == {"OPEN", "CLOSING"}

----------------------------------------------------------------------------
(* Set<WebSocket>: JS sets iterate in insertion order *)

SetHas(set, x) == \E i \in 1..Len(set) : set[i] = x

SetAdd(set, x) == IF SetHas(set, x) THEN set ELSE Append(set, x)

\* A delete that leaves the set as it is
SetDeleteNothing(set, x) == set

SetDelete(set, x) == SelectSeq(set, LAMBDA y : y /= x)

Members(set) == {set[i] : i \in 1..Len(set)}

----------------------------------------------------------------------------
(* Helpers of setupSignaling *)

\* rooms.has(id) ? rooms : rooms.set(id, {sender: null, receivers: new Set(), code})
getRoom(rs, id, c) ==
    IF id \in DOMAIN rs
    THEN rs
    ELSE [n \in DOMAIN rs \cup {id} |->
            IF n = id
            THEN [sender |-> NoSocket, receivers |-> <<>>, code |-> c]
            ELSE rs[n]]

\* rooms.delete(id)
RoomsDelete(rs, id) == [n \in DOMAIN rs \ {id} |-> rs[n]]

\* socketMeta.get(ws) is undefined for a socket whose close handler has run
HasMeta(metas, ws) == ws \in DOMAIN metas

\* ws.send(JSON.stringify(m)): the call as such, whatever the readyState of
\* ws; on a socket that is not OPEN the call delivers nothing and returns
Send(ws, m) == [to |-> ws, msg |-> m]

\* The result of a handler run
Result(rs, metas, out, threw) ==
    [rooms |-> rs, socketMeta |-> metas, sent |-> out, crashed |-> threw]

----------------------------------------------------------------------------
(* type === "join" *)

\* A code check that lets a receiver without any code through
JoinDeniedUnlessMissing(msg, room) ==
    msg.role = "receiver" /\ msg.code /= room.code /\ ~FalsyCode(msg.code)

\* msg.role === "receiver" && msg.code !== room.code
JoinDenied(msg, room) == msg.role = "receiver" /\ msg.code /= room.code

\* A reply that calls a code missing only when the message has no code field
DeniedReasonIfAbsent(msg) ==
    IF msg.code = NoCode THEN "Room code required" ELSE "Invalid room code"

\* msg.code ? "Invalid room code" : "Room code required"
DeniedReason(msg) ==
    IF FalsyCode(msg.code) THEN "Room code required" ELSE "Invalid room code"

\* A sender join that never demotes the sender it replaces
MustDemoteNever(room, ws) == FALSE

\* room.sender && room.sender !== ws
MustDemote(room, ws) == room.sender /= NoSocket /\ room.sender /= ws

\* for (const r of room.receivers) r.send({type: "sender-ready"})
NotifyReceivers(receivers) ==
    [i \in 1..Len(receivers) |-> Send(receivers[i], [type |-> "sender-ready"])]

\* A sender branch that gives the room the first code again and sends that
JoinAsSenderRekeys(ws, msg, rs, metas) ==
    LET room == [rs[msg.room] EXCEPT !.code = Str(CodeMin)]
        old  == room.sender
    IN  IF MustDemote(room, ws) /\ ~HasMeta(metas, old)
        THEN Result(rs, metas, <<>>, TRUE)
        ELSE LET demote == MustDemote(room, ws)
                 metas2 == IF demote
                           THEN [metas EXCEPT ![old].role = "receiver"]
                           ELSE metas
                 recv   == IF demote
                           THEN SetAdd(room.receivers, old)
                           ELSE room.receivers
                 out    == (IF demote
                            THEN <<Send(old, [type |-> "role-changed",
                                              newRole |-> "receiver"])>>
                            ELSE <<>>)
                           \o <<Send(ws, [type |-> "room-code",
                                          code |-> room.code])>>
                           \o NotifyReceivers(recv)
                 rs2    == [rs EXCEPT ![msg.room] =
                               [room EXCEPT !.receivers = recv, !.sender = ws]]
             IN  Result(rs2, metas2, out, FALSE)

\* A sender branch that announces the new sender to the receivers before it
\* tells the old sender of its demotion
JoinAsSenderAnnouncesFirst(ws, msg, rs, metas) ==
    LET room == rs[msg.room]
        old  == room.sender
    IN  IF MustDemote(room, ws) /\ ~HasMeta(metas, old)
        THEN Result(rs, metas, <<>>, TRUE)
        ELSE LET demote == MustDemote(room, ws)
                 metas2 == IF demote
                           THEN [metas EXCEPT ![old].role = "receiver"]
                           ELSE metas
                 recv   == IF demote
                           THEN SetAdd(room.receivers, old)
                           ELSE room.receivers
                 out    == <<Send(ws, [type |-> "room-code",
                                       code |-> room.code])>>
                           \o NotifyReceivers(recv)
                           \o (IF demote
                               THEN <<Send(old, [type |-> "role-changed",
                                                 newRole |-> "receiver"])>>
                               ELSE <<>>)
                 rs2    == [rs EXCEPT ![msg.room].receivers = recv,
                                      ![msg.room].sender = ws]
             IN  Result(rs2, metas2, out, FALSE)

JoinAsSender(ws, msg, rs, metas) ==
    LET room == rs[msg.room]
        old  == room.sender
    IN  IF MustDemote(room, ws) /\ ~HasMeta(metas, old)
        THEN \* oldMeta is undefined: "oldMeta.role = ..." throws a TypeError
             Result(rs, metas, <<>>, TRUE)
        ELSE LET demote == MustDemote(room, ws)
                 metas2 == IF demote
                           THEN [metas EXCEPT ![old].role = "receiver"]
                           ELSE metas
                 recv   == IF demote
                           THEN SetAdd(room.receivers, old)
                           ELSE room.receivers
                 out    == (IF demote
                            THEN <<Send(old, [type |-> "role-changed",
                                              newRole |-> "receiver"])>>
                            ELSE <<>>)
                           \o <<Send(ws, [type |-> "room-code",
                                          code |-> room.code])>>
                           \o NotifyReceivers(recv)
                 rs2    == [rs EXCEPT ![msg.room].receivers = recv,
                                      ![msg.room].sender = ws]
             IN  Result(rs2, metas2, out, FALSE)

\* A receiver branch that announces a sender only while that sender is open
JoinAsReceiverOpenOnly(ws, msg, rs, metas) ==
    LET room == rs[msg.room]
        rs2  == [rs EXCEPT ![msg.room].receivers = SetAdd(room.receivers, ws)]
        out  == IF room.sender /= NoSocket /\ readyState[room.sender] = "OPEN"
                THEN <<Send(ws, [type |-> "sender-ready"])>>
                ELSE <<>>
    IN  Result(rs2, metas, out, FALSE)

JoinAsReceiver(ws, msg, rs, metas) ==
    LET room == rs[msg.room]
        rs2  == [rs EXCEPT ![msg.room].receivers = SetAdd(room.receivers, ws)]
        out  == IF room.sender /= NoSocket
                THEN <<Send(ws, [type |-> "sender-ready"])>>
                ELSE <<>>
    IN  Result(rs2, metas, out, FALSE)

\* A handler that confirms the join before anything else it sends
ConfirmFirst(out, ws, msg) ==
    <<Send(ws, [type |-> "joined", role |-> msg.role])>> \o out

\* ws.send({type: "joined", role: msg.role}), the last statement of the handler
Confirm(out, ws, msg) ==
    out \o <<Send(ws, [type |-> "joined", role |-> msg.role])>>

\* The join handler; c is the code generateRoomCode returns if it is called
OnJoin(ws, msg, c) ==
    IF Falsy(msg.room) \/ Falsy(msg.role)
    THEN Result(rooms, socketMeta, <<>>, FALSE)
    ELSE LET rs   == getRoom(rooms, msg.room, c)
             room == rs[msg.room]
         IN  IF JoinDenied(msg, room)
             THEN Result(rs, socketMeta,
                         <<Send(ws, [type |-> "join-denied",
                                     reason |-> DeniedReason(msg)])>>,
                         FALSE)
             ELSE LET metas == [socketMeta EXCEPT ![ws].roomName = msg.room,
                                                  ![ws].role = msg.role]
                      r     == IF msg.role = "sender"
                               THEN JoinAsSender(ws, msg, rs, metas)
                               ELSE JoinAsReceiver(ws, msg, rs, metas)
                  IN  IF r.crashed
                      THEN r
                      ELSE [r EXCEPT !.sent = Confirm(@, ws, msg)]

----------------------------------------------------------------------------
(* type === "offer" || "answer" || "ice-candidate" *)

\* A relay that forwards the client's message as it came
ForwardedVerbatim(msg, meta) == msg

\* {...msg, from: meta.peerId}
Forwarded(msg, meta) == [msg EXCEPT !.from = meta.peerId]

\* Indices at which the unicast loop stops: a receiver without metadata
\* (getMeta(r).peerId throws) or a receiver whose peerId matches
UnicastStops(room, msg) ==
    {i \in 1..Len(room.receivers) :
        \/ ~HasMeta(socketMeta, room.receivers[i])
        \/ socketMeta[room.receivers[i]].peerId = msg.to}

Least(S) == CHOOSE i \in S : \A j \in S : i <= j

RelayUnicast(ws, msg, room, meta) ==
    LET stops == UnicastStops(room, msg)
    IN  IF stops = {}
        THEN Result(rooms, socketMeta, <<>>, FALSE)
        ELSE LET r == room.receivers[Least(stops)]
             IN  IF ~HasMeta(socketMeta, r)
                 THEN Result(rooms, socketMeta, <<>>, TRUE)
                 ELSE Result(rooms, socketMeta,
                             <<Send(r, Forwarded(msg, meta))>>, FALSE)

RelayBroadcast(ws, msg, room, meta) ==
    LET open == SelectSeq(room.receivers, LAMBDA r : readyState[r] = "OPEN")
    IN  Result(rooms, socketMeta,
               [i \in 1..Len(open) |-> Send(open[i], Forwarded(msg, meta))],
               FALSE)

RelayToSender(ws, msg, room, meta) ==
    IF room.sender /= NoSocket /\ readyState[room.sender] = "OPEN"
    THEN Result(rooms, socketMeta,
                <<Send(room.sender, Forwarded(msg, meta))>>, FALSE)
    ELSE Result(rooms, socketMeta, <<>>, FALSE)

\* A relay handler that falls back to the room "home" for a socket that has
\* joined no room
OnRelayDefaultRoom(ws, msg) ==
    LET meta     == socketMeta[ws]
        roomName == IF Falsy(meta.roomName) THEN "home" ELSE meta.roomName
    IN  IF roomName \notin DOMAIN rooms
        THEN Result(rooms, socketMeta, <<>>, FALSE)
        ELSE LET room == rooms[roomName]
             IN  IF meta.role = "sender"
                 THEN IF ~Falsy(msg.to)
                      THEN RelayUnicast(ws, msg, room, meta)
                      ELSE RelayBroadcast(ws, msg, room, meta)
                 ELSE RelayToSender(ws, msg, room, meta)

OnRelay(ws, msg) ==
    LET meta == socketMeta[ws]
    IN  IF Falsy(meta.roomName) \/ meta.roomName \notin DOMAIN rooms
        THEN Result(rooms, socketMeta, <<>>, FALSE)
        ELSE LET room == rooms[meta.roomName]
             IN  IF meta.role = "sender"
                 THEN IF ~Falsy(msg.to)
                      THEN RelayUnicast(ws, msg, room, meta)
                      ELSE RelayBroadcast(ws, msg, room, meta)
                 ELSE RelayToSender(ws, msg, room, meta)

----------------------------------------------------------------------------
(* ws.on("close") *)

\* meta.role === "sender" && room.sender === ws
ClosesAsSender(ws, meta, room) == meta.role = "sender" /\ room.sender = ws

\* for (const r of room.receivers) if (r.readyState === OPEN) r.send(sender-left)
\* rstate is the readyState at the time of the close event (ws itself CLOSED)
NotifySenderLeft(receivers, rstate) ==
    LET open == SelectSeq(receivers, LAMBDA r : rstate[r] = "OPEN")
    IN  [i \in 1..Len(open) |-> Send(open[i], [type |-> "sender-left"])]

\* A cleanup that sweeps every room without sender and receivers
CleanupSweeps(rs, roomName) ==
    [n \in {m \in DOMAIN rs : rs[m].sender /= NoSocket
                                \/ Len(rs[m].receivers) > 0} |-> rs[n]]

\* A close handler that never deletes a room
CleanupKeeps(rs, roomName) == rs

\* if (!room.sender && room.receivers.size === 0) rooms.delete(roomName)
Cleanup(rs, roomName) ==
    IF rs[roomName].sender = NoSocket /\ Len(rs[roomName].receivers) = 0
    THEN RoomsDelete(rs, roomName)
    ELSE rs

\* A close handler that reconciles room "home" for a socket that has joined
\* no room
OnCloseDefaultRoom(ws, rstate) ==
    LET meta     == socketMeta[ws]
        metas    == [s \in DOMAIN socketMeta \ {ws} |-> socketMeta[s]]
        roomName == IF Falsy(meta.roomName) THEN "home" ELSE meta.roomName
    IN  IF roomName \notin DOMAIN rooms
        THEN Result(rooms, metas, <<>>, FALSE)
        ELSE LET room == rooms[roomName]
             IN  IF ClosesAsSender(ws, meta, room)
                 THEN Result(
                        Cleanup([rooms EXCEPT ![roomName].sender = NoSocket],
                                roomName),
                        metas,
                        NotifySenderLeft(room.receivers, rstate),
                        FALSE)
                 ELSE Result(
                        Cleanup([rooms EXCEPT ![roomName].receivers =
                                                 SetDelete(@, ws)],
                                roomName),
                        metas,
                        IF room.sender /= NoSocket /\ rstate[room.sender] = "OPEN"
                        THEN <<Send(room.sender, [type |-> "receiver-left",
                                                  peerId |-> meta.peerId])>>
                        ELSE <<>>,
                        FALSE)

OnClose(ws, rstate) ==
    LET meta  == socketMeta[ws]
        metas == [s \in DOMAIN socketMeta \ {ws} |-> socketMeta[s]]
    IN  IF Falsy(meta.roomName) \/ meta.roomName \notin DOMAIN rooms
        THEN Result(rooms, metas, <<>>, FALSE)
        ELSE LET room == rooms[meta.roomName]
             IN  IF ClosesAsSender(ws, meta, room)
                 THEN Result(
                        Cleanup([rooms EXCEPT ![meta.roomName].sender = NoSocket],
                                meta.roomName),
                        metas,
                        NotifySenderLeft(room.receivers, rstate),
                        FALSE)
                 ELSE Result(
                        Cleanup([rooms EXCEPT ![meta.roomName].receivers =
                                                 SetDelete(@, ws)],
                                meta.roomName),
                        metas,
                        IF room.sender /= NoSocket /\ rstate[room.sender] = "OPEN"
                        THEN <<Send(room.sender, [type |-> "receiver-left",
                                                  peerId |-> meta.peerId])>>
                        ELSE <<>>,
                        FALSE)

----------------------------------------------------------------------------
(* The state machine *)

\* The event loop is idle: no handler has run since the last turn
NoEvent == [op |-> "idle", ws |-> NoSocket, msg |-> [type |-> "idle"]]

Idle == ~crashed /\ last = NoEvent

\* A page that has not started: let role = null, peerConnections = new Map(),
\* and no WebSocket
NoPage == [role |-> Null, pcs |-> {}, outbox |-> <<>>, inbox |-> <<>>]

InitWith(c) ==
    /\ rooms = [n \in {} |-> 0]
    /\ socketMeta = [s \in {} |-> 0]
    /\ readyState = [s \in Sessions |-> "UNBORN"]
    /\ sent = <<>>
    /\ last = NoEvent
    /\ crashed = FALSE
    /\ clients = c
    /\ senderGone = {}
    /\ page = IF c.pages THEN [s \in Sessions |-> NoPage] ELSE <<>>

\* All clients use the default room name of the client ("home")
Init == InitWith([rooms |-> {"home"}, peerIds |-> {"p1", "p2"},
                  sessions |-> NumSessions, codes |-> NumCodes,
                  pages |-> FALSE])

\* Clients that use two room names, and a generator with two values
InitTwoRooms == InitWith([rooms |-> {"home", "den"}, peerIds |-> {"p1"},
                          sessions |-> TwoRoomSessions, codes |-> TwoRoomCodes,
                          pages |-> FALSE])

Apply(r) ==
    /\ rooms' = r.rooms
    /\ socketMeta' = r.socketMeta
    /\ sent' = r.sent
    /\ crashed' = r.crashed

\* wss.on("connection"): sockets of the pool connect in index order
Connect(ws) ==
    /\ Idle
    /\ ws <= clients.sessions
    /\ readyState[ws] = "UNBORN"
    /\ \A s \in Sessions : s < ws => readyState[s] /= "UNBORN"
    /\ readyState' = [readyState EXCEPT ![ws] = "OPEN"]
    /\ socketMeta' = [s \in DOMAIN socketMeta \cup {ws} |->
                        IF s = ws
                        THEN [role |-> Null, peerId |-> Undefined,
                              roomName |-> Undefined]
                        ELSE socketMeta[s]]
    /\ sent' = <<>>
    /\ last' = [op |-> "connection", ws |-> ws, msg |-> [type |-> "connection"]]
    /\ UNCHANGED <<rooms, crashed, clients, senderGone,
                 page>>

\* A parse failure that is answered with an error message
MalformedAnswered(ws) ==
    /\ Idle
    /\ readyState[ws] \in Live
    /\ sent' = <<Send(ws, [type |-> "error"])>>
    /\ last' = [op |-> "message", ws |-> ws, msg |-> [type |-> "malformed"]]
    /\ UNCHANGED <<rooms, socketMeta, readyState, crashed, clients, senderGone,
                 page>>

\* JSON.parse throws: the handler returns
Malformed(ws) ==
    /\ Idle
    /\ readyState[ws] \in Live
    /\ sent' = <<>>
    /\ last' = [op |-> "message", ws |-> ws, msg |-> [type |-> "malformed"]]
    /\ UNCHANGED <<rooms, socketMeta, readyState, crashed, clients, senderGone,
                 page>>

\* A registration that keeps the first peerId a socket registered
RegisterIdOnce(ws) ==
    /\ Idle
    /\ readyState[ws] \in Live
    /\ \E p \in clients.peerIds :
        /\ socketMeta' = IF socketMeta[ws].peerId = Undefined
                         THEN [socketMeta EXCEPT ![ws].peerId = p]
                         ELSE socketMeta
        /\ last' = [op |-> "message", ws |-> ws,
                    msg |-> [type |-> "register-id", peerId |-> p]]
    /\ sent' = <<>>
    /\ UNCHANGED <<rooms, readyState, crashed, clients, senderGone,
                 page>>

RegisterId(ws) ==
    /\ Idle
    /\ readyState[ws] \in Live
    /\ \E p \in clients.peerIds :
        /\ socketMeta' = [socketMeta EXCEPT ![ws].peerId = p]
        /\ last' = [op |-> "message", ws |-> ws,
                    msg |-> [type |-> "register-id", peerId |-> p]]
    /\ sent' = <<>>
    /\ UNCHANGED <<rooms, readyState, crashed, clients, senderGone,
                 page>>

Join(ws) ==
    /\ Idle
    /\ readyState[ws] \in Live
    /\ \E msg \in JoinInputs :
        \E c \in (IF msg.room \in DOMAIN rooms
                  THEN {rooms[msg.room].code}
                  ELSE generateRoomCode) :
            /\ Apply(OnJoin(ws, msg, c))
            /\ last' = [op |-> "message", ws |-> ws, msg |-> msg]
    /\ senderGone' = senderGone \ (DOMAIN rooms' \ DOMAIN rooms)
    /\ UNCHANGED <<readyState, clients, page>>

Relay(ws) ==
    /\ Idle
    /\ readyState[ws] \in Live
    /\ \E msg \in RelayInputs :
        /\ Apply(OnRelay(ws, msg))
        /\ last' = [op |-> "message", ws |-> ws, msg |-> msg]
    /\ UNCHANGED <<readyState, clients, senderGone,
                 page>>

\* The closing handshake starts (the peer's close frame arrives, or
\* shutdown() calls ws.close()): the socket is CLOSING until "close" fires
BeginClose(ws) ==
    /\ Idle
    /\ readyState[ws] = "OPEN"
    /\ readyState' = [readyState EXCEPT ![ws] = "CLOSING"]
    /\ sent' = <<>>
    /\ last' = [op |-> "closing", ws |-> ws, msg |-> [type |-> "closing"]]
    /\ UNCHANGED <<rooms, socketMeta, crashed, clients, senderGone,
                 page>>

Close(ws) ==
    /\ Idle
    /\ readyState[ws] \in Live
    /\ readyState' = [readyState EXCEPT ![ws] = "CLOSED"]
    /\ Apply(OnClose(ws, readyState'))
    /\ last' = [op |-> "close", ws |-> ws, msg |-> [type |-> "close"]]
    /\ senderGone' = senderGone \cup {n \in DOMAIN rooms : rooms[n].sender = ws}
    /\ UNCHANGED <<clients, page>>

\* The handler has returned and the event loop takes its next turn
Turn ==
    /\ ~crashed
    /\ last /= NoEvent
    /\ last' = NoEvent
    /\ sent' = <<>>
    /\ UNCHANGED <<rooms, socketMeta, readyState, crashed, clients, senderGone,
                 page>>

Next ==
    \/ \E ws \in Sessions :
        \/ Connect(ws)
        \/ Malformed(ws)
        \/ RegisterId(ws)
        \/ Join(ws)
        \/ Relay(ws)
        \/ BeginClose(ws)
        \/ Close(ws)
    \/ Turn

Spec == Init /\ [][Next]_vars

SpecTwoRooms == InitTwoRooms /\ [][Next]_vars

\* The runs in which a socket sends join only while it is in no room, with
\* role sender or receiver (every run in which each socket sends at most
\* one join, with such a role, is one of them)
JoinOnce(ws) ==
    /\ readyState[ws] \in Live
    /\ Falsy(socketMeta[ws].roomName)
    /\ Join(ws)
    /\ last'.msg.role \in {"sender", "receiver"}

NextSingleJoin ==
    \/ \E ws \in Sessions :
        \/ Connect(ws)
        \/ Malformed(ws)
        \/ RegisterId(ws)
        \/ JoinOnce(ws)
        \/ Relay(ws)
        \/ BeginClose(ws)
        \/ Close(ws)
    \/ Turn

SpecSingleJoin == Init /\ [][NextSingleJoin]_vars

----------------------------------------------------------------------------
(* The browser client (app.ts) on every connection.  The hub handles the   *)
(* messages of one connection in the order the page sent them; a message   *)
(* the hub sends to an open socket reaches that page's onmessage in order. *)

\* Messages in flight in one direction of one connection
MaxInFlight == 2

\* const peerId = crypto.randomUUID(): every connection is a page of its own
PeerIdOf(ws) == "p" \o ToString(ws)

\* The description a createOffer() / createAnswer() yields
Sdp == "sdp"

\* A page that sends its join before its registration
OnOpenJoinsFirst(id, role, room) ==
    <<[type |-> "join", room |-> room, role |-> role, code |-> NoCode],
      [type |-> "register-id", peerId |-> id]>>

\* ws.onopen of connectWS with the onOpen of startSending / startAsReceiver:
\* send register-id, then the join (which carries no code)
OnOpen(id, role, room) ==
    <<[type |-> "register-id", peerId |-> id],
      [type |-> "join", room |-> room, role |-> role, code |-> NoCode]>>

\* startReceiving(): the nudge
Nudge(id) == [type |-> "answer", to |-> Undefined, from |-> id, sdp |-> Null]

\* send(msg): queued for the hub
PageSend(pg, msg) == [pg EXCEPT !.outbox = Append(@, msg)]

\* handleSignal(msg) on a page whose socket is open
handleSignal(pg, id, msg) ==
    CASE msg.type = "sender-ready" ->
            IF pg.role = "receiver"
            THEN PageSend([pg EXCEPT !.pcs = {}], Nudge(id))
            ELSE pg
      [] msg.type = "offer" ->
            IF pg.role = "receiver"
            THEN PageSend([pg EXCEPT !.pcs = {msg.from}],
                          [type |-> "answer", to |-> msg.from,
                           from |-> Undefined, sdp |-> Sdp])
            ELSE pg
      [] msg.type = "answer" ->
            IF pg.role = "sender" /\ msg.sdp = Null /\ ~Falsy(msg.from)
            THEN PageSend([pg EXCEPT !.pcs = @ \cup {msg.from}],
                          [type |-> "offer", to |-> msg.from,
                           from |-> Undefined, sdp |-> Sdp])
            ELSE pg
      [] msg.type = "receiver-left" ->
            IF pg.role = "sender" /\ ~Falsy(msg.peerId)
            THEN [pg EXCEPT !.pcs = @ \ {msg.peerId}]
            ELSE pg
      [] msg.type = "sender-left" ->
            IF pg.role = "receiver" THEN [pg EXCEPT !.pcs = {}] ELSE pg
      [] msg.type = "role-changed" ->
            IF msg.newRole = "receiver"
            THEN [pg EXCEPT !.role = "receiver", !.pcs = {}]
            ELSE pg
      [] OTHER -> pg

\* The message types on which handleSignal neither sends nor changes the
\* page's role or peer connections
Inert == {"joined", "room-code", "join-denied", "ice-candidate", "error"}

\* What the sends of one handler run add to the inbox of page s
Arrivals(out, rstate, s) ==
    LET mine == SelectSeq(out, LAMBDA e : /\ e.to = s
                                          /\ rstate[s] = "OPEN"
                                          /\ e.msg.type \notin Inert)
    IN  [i \in 1..Len(mine) |-> mine[i].msg]

\* The pages after a handler run on connection ws that sent out
Deliver(pages, ws, out, rstate) ==
    [s \in Sessions |->
        [pages[s] EXCEPT !.inbox = @ \o Arrivals(out, rstate, s)]]

InFlightBounded(pages) ==
    \A s \in Sessions : /\ Len(pages[s].inbox) <= MaxInFlight
                        /\ Len(pages[s].outbox) <= MaxInFlight

\* All pages use the default room name, and each has an identity of its own
InitClients == InitWith([rooms |-> {"home"},
                         peerIds |-> {PeerIdOf(s) : s \in Sessions},
                         sessions |-> NumSessions, codes |-> NumCodes,
                         pages |-> TRUE])

\* "Start Sending" / "Watch": the page connects, the hub's "connection"
\* handler runs, and ws.onopen queues the registration and the join
PageOpen(ws) ==
    /\ Idle
    /\ ws <= clients.sessions
    /\ readyState[ws] = "UNBORN"
    /\ \A s \in Sessions : s < ws => readyState[s] /= "UNBORN"
    /\ readyState' = [readyState EXCEPT ![ws] = "OPEN"]
    /\ socketMeta' = [s \in DOMAIN socketMeta \cup {ws} |->
                        IF s = ws
                        THEN [role |-> Null, peerId |-> Undefined,
                              roomName |-> Undefined]
                        ELSE socketMeta[s]]
    /\ \E role \in {"sender", "receiver"}, room \in clients.rooms :
        page' = [page EXCEPT ![ws] =
                    [role |-> role, pcs |-> {},
                     outbox |-> OnOpen(PeerIdOf(ws), role, room),
                     inbox |-> <<>>]]
    /\ sent' = <<>>
    /\ last' = [op |-> "connection", ws |-> ws, msg |-> [type |-> "connection"]]
    /\ UNCHANGED <<rooms, crashed, clients, senderGone>>

\* What ws.on("message") does with msg
OnMessage(ws, msg, c) ==
    CASE msg.type = "register-id" ->
            Result(rooms, [socketMeta EXCEPT ![ws].peerId = msg.peerId],
                   <<>>, FALSE)
      [] msg.type = "join" -> OnJoin(ws, msg, c)
      [] OTHER -> OnRelay(ws, msg)

\* ws.on("message") for the oldest message the page of ws has in flight
HubMessage(ws) ==
    /\ Idle
    /\ readyState[ws] \in Live
    /\ page[ws].outbox /= <<>>
    /\ LET msg == Head(page[ws].outbox)
       IN  /\ \E c \in (IF msg.type = "join" /\ msg.room \notin DOMAIN rooms
                        THEN generateRoomCode
                        ELSE {NoCode}) :
                Apply(OnMessage(ws, msg, c))
           /\ last' = [op |-> "message", ws |-> ws, msg |-> msg]
    /\ page' = Deliver([page EXCEPT ![ws].outbox = Tail(@)], ws, sent',
                       readyState)
    /\ InFlightBounded(page')
    /\ senderGone' = senderGone \ (DOMAIN rooms' \ DOMAIN rooms)
    /\ UNCHANGED <<readyState, clients>>

\* ws.onmessage of the page of ws for the oldest message in its inbox
PageSignal(ws) ==
    /\ Idle
    /\ readyState[ws] = "OPEN"
    /\ page[ws].inbox /= <<>>
    /\ page' = [page EXCEPT ![ws] =
                    handleSignal([@ EXCEPT !.inbox = Tail(@)],
                                 PeerIdOf(ws), Head(page[ws].inbox))]
    /\ InFlightBounded(page')
    /\ UNCHANGED <<rooms, socketMeta, readyState, sent, last, crashed,
                   clients, senderGone>>

\* pc.onicecandidate / receiverPC.onicecandidate of a peer connection
PageCandidate(ws) ==
    /\ Idle
    /\ readyState[ws] = "OPEN"
    /\ \E id \in page[ws].pcs :
        page' = [page EXCEPT ![ws] =
                    PageSend(@, [type |-> "ice-candidate", to |-> id,
                                 from |-> Undefined, sdp |-> Undefined])]
    /\ InFlightBounded(page')
    /\ UNCHANGED <<rooms, socketMeta, readyState, sent, last, crashed,
                   clients, senderGone>>

\* ws.on("close"): what the page had in flight is lost
HubClose(ws) ==
    /\ Idle
    /\ readyState[ws] \in Live
    /\ readyState' = [readyState EXCEPT ![ws] = "CLOSED"]
    /\ Apply(OnClose(ws, readyState'))
    /\ last' = [op |-> "close", ws |-> ws, msg |-> [type |-> "close"]]
    /\ page' = Deliver([page EXCEPT ![ws] = NoPage], ws, sent', readyState')
    /\ InFlightBounded(page')
    /\ senderGone' = senderGone \cup {n \in DOMAIN rooms : rooms[n].sender = ws}
    /\ UNCHANGED clients

NextClients ==
    \/ \E ws \in Sessions :
        \/ PageOpen(ws)
        \/ HubMessage(ws)
        \/ PageSignal(ws)
        \/ PageCandidate(ws)
        \/ BeginClose(ws)
        \/ HubClose(ws)
    \/ Turn

SpecClients == InitClients /\ [][NextClients]_vars

----------------------------------------------------------------------------
(* Vocabulary of the properties *)

\* The receivers / the sender of room n in registry rs (none if n is absent)
ReceiversOf(rs, n) == IF n \in DOMAIN rs THEN Members(rs[n].receivers) ELSE {}

SenderOf(rs, n) == IF n \in DOMAIN rs THEN rs[n].sender ELSE NoSocket

\* The handler that ran last handled a message of this type
Handled(ev, type) == ev.op = "message" /\ ev.msg.type = type

\* The handler called ws.send with a message of this type / with exactly m
SentType(out, ws, type) ==
    \E i \in 1..Len(out) : out[i].to = ws /\ out[i].msg.type = type

SentMsg(out, ws, m) == \E i \in 1..Len(out) : out[i] = Send(ws, m)

Recipients(out) == {out[i].to : i \in 1..Len(out)}

\* ev is a join with role receiver, naming room n, whose code is missing or
\* differs from the code of n (rs is the registry the comparison was made in)
DeniedJoin(ev, rs, n) ==
    /\ Handled(ev, "join")
    /\ ev.msg.room = n
    /\ ev.msg.role = "receiver"
    /\ n \in DOMAIN rs
    /\ ev.msg.code /= rs[n].code

----------------------------------------------------------------------------
(* Properties *)

\* C1: in every reachable state no room's sender is also an element of that
\* room's receivers.
C1_SenderNotAmongReceivers ==
    \A n \in DOMAIN rooms : rooms[n].sender \notin Members(rooms[n].receivers)

\* C2: a socket enters a room's receivers only through a join of its own
\* that carried the room's code, or by being demoted from sender of that room
\* by another socket's sender join.
C2_ReceiversPresentedCode ==
    [][\A n \in DOMAIN rooms' : \A s \in Sessions :
         (s \in ReceiversOf(rooms', n) /\ s \notin ReceiversOf(rooms, n))
         => \/ /\ Handled(last', "join")
               /\ last'.ws = s
               /\ last'.msg.room = n
               /\ last'.msg.code = rooms'[n].code
            \/ /\ Handled(last', "join")
               /\ last'.ws /= s
               /\ last'.msg.room = n
               /\ last'.msg.role = "sender"
               /\ SenderOf(rooms, n) = s]_vars

\* C3: in every reachable state the registry holds no room with no sender
\* and no receivers.
C3_NoEmptyRoom ==
    \A n \in DOMAIN rooms :
        rooms[n].sender /= NoSocket \/ Len(rooms[n].receivers) > 0

\* C4: a receiver join for room n whose code is missing or differs from the
\* code of n leaves the receivers of n as they were (empty, if n did not
\* exist), and the requesting socket is sent join-denied and not joined.
C4_DeniedJoinKeepsReceivers ==
    [][\A n \in DOMAIN rooms' :
         DeniedJoin(last', rooms', n)
         => /\ rooms'[n].receivers =
                 (IF n \in DOMAIN rooms THEN rooms[n].receivers ELSE <<>>)
            /\ SentType(sent', last'.ws, "join-denied")
            /\ ~SentType(sent', last'.ws, "joined")]_vars

\* C4 witness: a join with a wrong code was denied in a room that has a receiver
C4_Witness ==
    \E n \in DOMAIN rooms :
        /\ DeniedJoin(last, rooms, n)
        /\ SentType(sent, last.ws, "join-denied")
        /\ Len(rooms[n].receivers) > 0
        /\ last.ws \notin Members(rooms[n].receivers)

\* C5: a denied join changes nothing: the registry (room names, senders,
\* receivers, codes) and every socket's role, peerId and roomName are the
\* same after the handler as before it.
C5_DeniedJoinChangesNothing ==
    [][\A n \in DOMAIN rooms' :
         DeniedJoin(last', rooms', n)
         => rooms' = rooms /\ socketMeta' = socketMeta]_vars

\* C6: when socket C joins room n as sender while n has a different sender
\* A, then after the handler n's sender is C, A is a receiver of n with role
\* receiver and was sent role-changed{newRole: receiver}, and every receiver
\* of n was sent sender-ready.
C6_SecondSenderDemotesFirst ==
    [][\A n \in DOMAIN rooms :
         (/\ Handled(last', "join")
          /\ last'.msg.room = n
          /\ last'.msg.role = "sender"
          /\ rooms[n].sender \notin {NoSocket, last'.ws})
         => LET A == rooms[n].sender
                C == last'.ws
            IN  /\ SenderOf(rooms', n) = C
                /\ A \in ReceiversOf(rooms', n)
                /\ A \in DOMAIN socketMeta'
                /\ socketMeta'[A].role = "receiver"
                /\ SentMsg(sent', A, [type |-> "role-changed",
                                      newRole |-> "receiver"])
                /\ \A r \in ReceiversOf(rooms', n) :
                       SentType(sent', r, "sender-ready")]_vars

\* The receivers of room n whose registered peerId is id
Matching(n, id) ==
    {r \in ReceiversOf(rooms, n) :
        r \in DOMAIN socketMeta /\ socketMeta[r].peerId = id}

\* C7: a negotiation message sent by the sender of room n goes, when it
\* carries a "to", only to the receiver of n whose registered peerId equals
\* it (to nobody when none matches), and otherwise to every receiver of n.
C7_SenderRelayRouting ==
    [][\A n \in DOMAIN rooms :
         (/\ last'.op = "message"
          /\ last'.msg.type \in NegTypes
          /\ rooms[n].sender = last'.ws)
         => IF last'.msg.to /= Undefined
            THEN /\ Recipients(sent') \subseteq Matching(n, last'.msg.to)
                 /\ Matching(n, last'.msg.to) /= {} => Recipients(sent') /= {}
                 /\ ~crashed'
            ELSE Recipients(sent') = ReceiversOf(rooms, n)]_vars

\* C8: when the socket that is the sender of room n closes, n's sender
\* becomes empty, every receiver of n is sent sender-left, and n's receivers
\* are unchanged.
C8_SenderCloseNotifiesReceivers ==
    [][\A n \in DOMAIN rooms :
         (last'.op = "close" /\ rooms[n].sender = last'.ws)
         => /\ SenderOf(rooms', n) = NoSocket
            /\ \A r \in ReceiversOf(rooms, n) : SentType(sent', r, "sender-left")
            /\ ReceiversOf(rooms', n) = ReceiversOf(rooms, n)]_vars

\* C9: when a socket that is a receiver of room n closes, exactly that
\* socket leaves n's receivers, n's sender is unchanged, and the sender of
\* n, if any (and not the closing socket itself), is sent receiver-left with
\* the closing socket's peerId.
C9_ReceiverCloseRemovesIt ==
    [][\A n \in DOMAIN rooms :
         (last'.op = "close" /\ last'.ws \in ReceiversOf(rooms, n))
         => /\ ReceiversOf(rooms', n) = ReceiversOf(rooms, n) \ {last'.ws}
            /\ SenderOf(rooms', n) = rooms[n].sender
            /\ rooms[n].sender \notin {NoSocket, last'.ws}
               => SentMsg(sent', rooms[n].sender,
                          [type |-> "receiver-left",
                           peerId |-> socketMeta[last'.ws].peerId])]_vars

\* C10: room membership and socket metadata agree: s is the sender of room
\* n iff s has role sender and roomName n, and s is a receiver of n iff s
\* has role receiver and roomName n.
C10_MembershipAgreesWithMeta ==
    \A n \in clients.rooms : \A s \in Sessions :
        LET named(role) == /\ s \in DOMAIN socketMeta
                           /\ socketMeta[s].role = role
                           /\ socketMeta[s].roomName = n
        IN  /\ SenderOf(rooms, n) = s <=> named("sender")
            /\ s \in ReceiversOf(rooms, n) <=> named("receiver")


\* The positions in out of the calls ws.send(m)
Positions(out, ws, m) == {i \in 1..Len(out) : out[i] = Send(ws, m)}

\* The handler that ran last handled a join with this role that named a room
JoinedAs(ev, role) ==
    Handled(ev, "join") /\ ~Falsy(ev.msg.room) /\ ev.msg.role = role

\* C11: no handler ever terminates with an uncaught exception: whatever the
\* clients send and whenever they close, the process keeps running.
C11_NoHandlerThrows == ~crashed

\* C12 (as stated): in a sender join, the joined message with role sender is
\* sent to the joining socket before the room-code message.
C12_JoinedBeforeRoomCode ==
    JoinedAs(last, "sender")
    => \A i \in Positions(sent, last.ws, [type |-> "joined", role |-> "sender"]) :
       \A j \in 1..Len(sent) :
          (sent[j].to = last.ws /\ sent[j].msg.type = "room-code") => i < j

\* C12 (amended): in a sender join, the joined message with role sender is
\* sent to the joining socket after the room-code message of that join, and
\* nothing is sent after it.
C12_RoomCodeBeforeJoined ==
    JoinedAs(last, "sender")
    => \A i \in Positions(sent, last.ws, [type |-> "joined", role |-> "sender"]) :
          /\ i = Len(sent)
          /\ \E j \in 1..(i - 1) :
                sent[j].to = last.ws /\ sent[j].msg.type = "room-code"

\* A sender join has sent both room-code and joined to the joining socket
C12_Witness ==
    /\ JoinedAs(last, "sender")
    /\ SentType(sent, last.ws, "room-code")
    /\ SentMsg(sent, last.ws, [type |-> "joined", role |-> "sender"])

\* C13 (as stated): in a receiver join, the joined message with role
\* receiver is sent to the joining socket before the sender-ready message.
C13_JoinedBeforeSenderReady ==
    JoinedAs(last, "receiver")
    => \A i \in Positions(sent, last.ws, [type |-> "joined", role |-> "receiver"]) :
       \A j \in Positions(sent, last.ws, [type |-> "sender-ready"]) : i < j

\* C13 (amended): in a receiver join, every sender-ready message sent to the
\* joining socket is followed by the joined message with role receiver,
\* which is the last message of the join.
C13_SenderReadyBeforeJoined ==
    JoinedAs(last, "receiver")
    => \A j \in Positions(sent, last.ws, [type |-> "sender-ready"]) :
          /\ j < Len(sent)
          /\ sent[Len(sent)] =
                Send(last.ws, [type |-> "joined", role |-> "receiver"])

\* A receiver join of a room with a sender has sent both messages
C13_Witness ==
    /\ JoinedAs(last, "receiver")
    /\ SentMsg(sent, last.ws, [type |-> "sender-ready"])
    /\ SentMsg(sent, last.ws, [type |-> "joined", role |-> "receiver"])
    /\ last.msg.room \in DOMAIN rooms
    /\ rooms[last.msg.room].sender \notin {NoSocket, last.ws}

\* C14: a sender join needs no code and always succeeds: afterwards the
\* joining socket is the room's sender and has been sent room-code with the
\* room's code.
C14_SenderJoinSucceeds ==
    JoinedAs(last, "sender")
    => /\ ~crashed
       /\ SenderOf(rooms, last.msg.room) = last.ws
       /\ SentMsg(sent, last.ws, [type |-> "room-code",
                                  code |-> rooms[last.msg.room].code])

\* C15: a receiver join that carries the room's code adds the socket to the
\* room's receivers, records role receiver and the room name for it, sends
\* it joined with role receiver, and sends it sender-ready if and only if
\* the room had a sender when the join arrived; nobody else is sent anything.
C15_ReceiverJoinAccepted ==
    [][\A n \in clients.rooms :
         (/\ JoinedAs(last', "receiver")
          /\ last'.msg.room = n
          /\ n \in DOMAIN rooms'
          /\ last'.msg.code = rooms'[n].code)
         => /\ ~crashed'
            /\ last'.ws \in ReceiversOf(rooms', n)
            /\ socketMeta'[last'.ws].role = "receiver"
            /\ socketMeta'[last'.ws].roomName = n
            /\ SentMsg(sent', last'.ws, [type |-> "joined", role |-> "receiver"])
            /\ SentMsg(sent', last'.ws, [type |-> "sender-ready"])
               <=> SenderOf(rooms, n) /= NoSocket
            /\ Recipients(sent') = {last'.ws}]_vars

\* A receiver joined with the code a room whose sender is another socket,
\* and a receiver joined with the code a room that had no sender
C15_Witness ==
    /\ JoinedAs(last, "receiver")
    /\ last.msg.room \in DOMAIN rooms
    /\ last.msg.code = rooms[last.msg.room].code
    /\ rooms[last.msg.room].sender \notin {NoSocket, last.ws}
    /\ readyState[rooms[last.msg.room].sender] /= "OPEN"
    /\ SentMsg(sent, last.ws, [type |-> "sender-ready"])

\* C16: a negotiation message from a socket that is a receiver of room n is
\* forwarded to n's sender when n has one whose connection is open, and to
\* nobody otherwise; it is never delivered to another receiver.
C16_ReceiverRelayRouting ==
    \A n \in DOMAIN rooms :
        (last.op = "message" /\ last.msg.type \in NegTypes
         /\ last.ws \in ReceiversOf(rooms, n))
        => /\ ~crashed
           /\ Recipients(sent) =
                 IF rooms[n].sender /= NoSocket
                    /\ readyState[rooms[n].sender] = "OPEN"
                 THEN {rooms[n].sender}
                 ELSE {}
           /\ Recipients(sent) \cap (ReceiversOf(rooms, n) \ {last.ws}) = {}

\* C17: every forwarded negotiation message equals the message the relaying
\* socket sent except that from is that socket's registered peerId (absent
\* if it registered none); a from supplied by the client reaches nobody.
C17_ForwardedFromIsRegisteredId ==
    (last.op = "message" /\ last.msg.type \in NegTypes)
    => \A i \in 1..Len(sent) :
          /\ sent[i].msg = [last.msg EXCEPT !.from = socketMeta[last.ws].peerId]
          /\ sent[i].msg.from \in clients.peerIds \cup {Undefined}

\* A message with a client-supplied from was forwarded from a socket that
\* registered a peerId
C17_Witness ==
    /\ last.op = "message" /\ last.msg.type \in NegTypes
    /\ last.msg.from = "forged"
    /\ socketMeta[last.ws].peerId \in clients.peerIds
    /\ Len(sent) > 0
    /\ last.ws \notin Recipients(sent)

\* C18: a negotiation message from a socket that has joined no room (it
\* never joined, or its joins were denied) is delivered to nobody, is not
\* answered, and changes no state.
C18_RelayWithoutRoomDropped ==
    [][(last'.op = "message" /\ last'.msg.type \in NegTypes
        /\ Falsy(socketMeta[last'.ws].roomName))
       => /\ sent' = <<>>
          /\ UNCHANGED <<rooms, socketMeta, readyState, crashed>>]_vars

\* A socket that has joined no room relayed while room "home" had an open
\* sender and an open receiver
C18_Witness ==
    /\ last.op = "message" /\ last.msg.type \in NegTypes
    /\ Falsy(socketMeta[last.ws].roomName)
    /\ "home" \in DOMAIN rooms
    /\ rooms["home"].sender /= NoSocket
    /\ readyState[rooms["home"].sender] = "OPEN"
    /\ \E r \in ReceiversOf(rooms, "home") :
          r /= rooms["home"].sender /\ readyState[r] = "OPEN"

\* The closing socket belonged to room n: n is the room its metadata names,
\* or it is n's sender or one of n's receivers
ClosedIn(n) ==
    /\ last'.op = "close"
    /\ \/ socketMeta[last'.ws].roomName = n
       \/ (n \in DOMAIN rooms /\ rooms[n].sender = last'.ws)
       \/ last'.ws \in ReceiversOf(rooms, n)

C20_AllClosedNoRooms ==
    (\A s \in Sessions : readyState[s] \notin Live) => DOMAIN rooms = {}

\* C21: the close of a socket that has completed no join changes no room
\* (none is added, removed or altered) and sends nothing.
C21_CloseWithoutJoinIsNoOp ==
    [][(last'.op = "close" /\ Falsy(socketMeta[last'.ws].roomName))
       => /\ rooms' = rooms
          /\ sent' = <<>>
          /\ ~crashed']_vars

\* A socket closed without a word to anybody while room "home" had an open
\* sender and an open receiver: the closing socket had joined no room
C21_Witness ==
    /\ last.op = "close"
    /\ sent = <<>>
    /\ "home" \in DOMAIN rooms
    /\ rooms["home"].sender /= NoSocket
    /\ readyState[rooms["home"].sender] = "OPEN"
    /\ \E r \in ReceiversOf(rooms, "home") :
          r /= rooms["home"].sender /\ readyState[r] = "OPEN"

C23_RestartedSenderGetsNewCode ==
    [][\A n \in clients.rooms :
         (JoinedAs(last', "sender") /\ last'.msg.room = n /\ n \in senderGone)
         => /\ n \notin DOMAIN rooms
            /\ n \in DOMAIN rooms'
            /\ SentMsg(sent', last'.ws, [type |-> "room-code",
                                         code |-> rooms'[n].code])]_vars

\* The step handles an event of room X: a join that names X, or a
\* negotiation message or the close of a socket whose roomName is X
ActsIn(X) ==
    \/ Handled(last', "join") /\ last'.msg.room = X
    \/ /\ last'.op = "message" /\ last'.msg.type \in NegTypes
       /\ socketMeta[last'.ws].roomName = X
    \/ last'.op = "close" /\ socketMeta[last'.ws].roomName = X

\* C24: an event of room X leaves every other room as it was (present or
\* absent, with the same sender, receivers and code) and sends only to the
\* acting socket and to the sender and the receivers of X.
C24_ConfinedToOneRoom ==
    [][\A X \in clients.rooms :
         ActsIn(X)
         => /\ \A n \in clients.rooms \ {X} :
                 /\ n \in DOMAIN rooms <=> n \in DOMAIN rooms'
                 /\ n \in DOMAIN rooms => rooms'[n] = rooms[n]
            /\ Recipients(sent') \subseteq
                 {last'.ws} \cup {SenderOf(rooms, X)} \cup ReceiversOf(rooms, X)]_vars

\* A socket whose roomName is "home" was served (a join or a relay that
\* sent something, or its close) while room "den" had another, open socket
\* as sender or receiver
C24_Witness ==
    /\ "den" \in DOMAIN rooms
    /\ "home" \in DOMAIN rooms
    /\ last.ws \in DOMAIN socketMeta
    /\ socketMeta[last.ws].roomName = "home"
    /\ Len(sent) > 0
    /\ \E s \in Sessions \ {last.ws} :
          /\ readyState[s] = "OPEN"
          /\ s = rooms["den"].sender \/ s \in ReceiversOf(rooms, "den")

\* C25: every socket's role is null (unassigned), sender or receiver, and
\* every joined message carries the role sender or receiver.
C25_RolesAreSenderOrReceiver ==
    /\ \A s \in DOMAIN socketMeta :
          socketMeta[s].role \in {Null, "sender", "receiver"}
    /\ \A i \in 1..Len(sent) :
          sent[i].msg.type = "joined" => sent[i].msg.role \in {"sender", "receiver"}

\* The sockets whose metadata says sender of room n
SendersOf(n) ==
    {s \in DOMAIN socketMeta :
        socketMeta[s].role = "sender" /\ socketMeta[s].roomName = n}

\* C26: for every room name at most one socket has role sender together
\* with that roomName, and such a socket is the room's sender in the
\* registry.
C26_OneSenderPerRoom ==
    ~crashed
    => \A n \in clients.rooms :
          /\ Cardinality(SendersOf(n)) <= 1
          /\ \A s \in SendersOf(n) : SenderOf(rooms, n) = s

\* A sender join has demoted the previous sender, whose metadata still names
\* the room
C26_Witness ==
    /\ ~crashed
    /\ JoinedAs(last, "sender")
    /\ SendersOf(last.msg.room) = {last.ws}
    /\ \E old \in DOMAIN socketMeta \ {last.ws} :
          /\ socketMeta[old].roomName = last.msg.room
          /\ SentMsg(sent, old, [type |-> "role-changed", newRole |-> "receiver"])

\* C27: register-id stores the peerId of the message on the socket and does
\* nothing else; no other step changes a socket's peerId; and the relay and
\* the close handler use the stored value: from of every forwarded message,
\* the match of a sender's unicast on to, and peerId of receiver-left.
C27_LastRegistrationWins ==
    [][/\ Handled(last', "register-id")
          => /\ socketMeta' =
                   [socketMeta EXCEPT ![last'.ws].peerId = last'.msg.peerId]
             /\ rooms' = rooms
             /\ sent' = <<>>
       /\ ~Handled(last', "register-id")
          => \A s \in DOMAIN socketMeta \cap DOMAIN socketMeta' :
                socketMeta'[s].peerId = socketMeta[s].peerId
       /\ (last'.op = "message" /\ last'.msg.type \in NegTypes)
          => \A i \in 1..Len(sent') :
                /\ sent'[i].msg.from = socketMeta[last'.ws].peerId
                /\ (socketMeta[last'.ws].role = "sender" /\ ~Falsy(last'.msg.to))
                   => /\ sent'[i].to \in DOMAIN socketMeta
                      /\ socketMeta[sent'[i].to].peerId = last'.msg.to
       /\ last'.op = "close"
          => \A i \in 1..Len(sent') :
                sent'[i].msg.type = "receiver-left"
                => sent'[i].msg.peerId = socketMeta[last'.ws].peerId]_vars

\* A socket that has joined room "home" registered p2 while another socket
\* is registered as p1
C27_Witness ==
    /\ Handled(last, "register-id")
    /\ last.msg.peerId = "p2"
    /\ socketMeta[last.ws].peerId = "p2"
    /\ socketMeta[last.ws].roomName = "home"
    /\ \E s \in DOMAIN socketMeta \ {last.ws} : socketMeta[s].peerId = "p1"

\* C28: a message that does not parse is not answered, changes no room, no
\* socket metadata and no connection state, and does not end the process.
C28_MalformedDropped ==
    [][Handled(last', "malformed")
       => /\ sent' = <<>>
          /\ UNCHANGED <<rooms, socketMeta, readyState, crashed>>]_vars

\* The sender of room "home", with an open receiver, sent an unparsable
\* message and its connection is open
C28_Witness ==
    /\ Handled(last, "malformed")
    /\ readyState[last.ws] = "OPEN"
    /\ SenderOf(rooms, "home") = last.ws
    /\ \E r \in ReceiversOf(rooms, "home") : r /= last.ws /\ readyState[r] = "OPEN"

\* C29 (as stated): the reason of join-denied is "Room code required"
\* exactly when the join carried no code and "Invalid room code" exactly
\* when it carried one.
C29_ReasonTellsAbsentFromWrong ==
    \A i \in 1..Len(sent) :
       sent[i].msg.type = "join-denied"
       => /\ sent[i].msg.reason = "Room code required" <=> last.msg.code = NoCode
          /\ sent[i].msg.reason = "Invalid room code" <=> last.msg.code /= NoCode

\* C29 (amended): join-denied answers a receiver join whose code differs
\* from the room's; its reason is "Room code required" exactly when the
\* code is absent or falsy (the number 0), "Invalid room code" otherwise.
C29_ReasonTellsFalsyFromWrong ==
    \A i \in 1..Len(sent) :
       sent[i].msg.type = "join-denied"
       => /\ JoinedAs(last, "receiver")
          /\ sent[i].to = last.ws
          /\ last.msg.code /= rooms[last.msg.room].code
          /\ sent[i].msg.reason = "Room code required"
             <=> last.msg.code \in {NoCode, Num(0)}
          /\ sent[i].msg.reason = "Invalid room code"
             <=> last.msg.code \notin {NoCode, Num(0)}

\* A receiver join that carried the number 0 was denied
C29_Witness ==
    /\ JoinedAs(last, "receiver")
    /\ last.msg.code = Num(0)
    /\ SentType(sent, last.ws, "join-denied")

\* C30: when socket C joins as sender a room whose sender is A and that has
\* receiver B (three connected sockets), A is sent role-changed to receiver
\* and after it sender-ready, and B is sent sender-ready once and no
\* role-changed.
C30_DemotedBeforeSenderReady ==
    [][\A n \in DOMAIN rooms : \A A, B, C \in DOMAIN socketMeta :
         (/\ A /= B /\ B /= C /\ A /= C
          /\ rooms[n].sender = A
          /\ B \in ReceiversOf(rooms, n)
          /\ JoinedAs(last', "sender") /\ last'.msg.room = n /\ last'.ws = C)
         => LET changed == Positions(sent', A, [type |-> "role-changed",
                                                newRole |-> "receiver"])
                ready(s) == Positions(sent', s, [type |-> "sender-ready"])
            IN  /\ Cardinality(changed) = 1
                /\ Cardinality(ready(A)) = 1
                /\ \A i \in changed : \A j \in ready(A) : i < j
                /\ Cardinality(ready(B)) = 1
                /\ ~SentType(sent', B, "role-changed")]_vars

\* The last join demoted an open sender in a room with another open receiver
C30_Witness ==
    /\ JoinedAs(last, "sender")
    /\ \E A, B \in Sessions \ {last.ws} :
          /\ A /= B
          /\ readyState[A] = "OPEN" /\ readyState[B] = "OPEN"
          /\ SentMsg(sent, A, [type |-> "role-changed", newRole |-> "receiver"])
          /\ SentMsg(sent, A, [type |-> "sender-ready"])
          /\ SentMsg(sent, B, [type |-> "sender-ready"])

\* C31: a relay never calls send on a socket that is not open, whether the
\* message names a target, is broadcast or goes from a receiver to the
\* sender; it skips such a destination and runs to completion.
C31_RelayOnlyToOpen ==
    (last.op = "message" /\ last.msg.type \in NegTypes)
    => /\ ~crashed
       /\ \A i \in 1..Len(sent) : readyState[sent[i].to] = "OPEN"

\* C32: when every socket joins at most once, with role sender or receiver,
\* membership and metadata agree in every state (s is the sender of room n
\* iff s has role sender and roomName n; s is a receiver of n iff s has role
\* receiver and roomName n), no room's sender is among its receivers, and no
\* handler throws.
C32_SingleJoinKeepsAgreement ==
    /\ ~crashed
    /\ \A n \in clients.rooms : \A s \in Sessions :
          LET is(role) == /\ s \in DOMAIN socketMeta
                          /\ socketMeta[s].role = role
                          /\ socketMeta[s].roomName = n
          IN  /\ SenderOf(rooms, n) = s <=> is("sender")
              /\ s \in ReceiversOf(rooms, n) <=> is("receiver")
    /\ \A n \in DOMAIN rooms : ~SetHas(rooms[n].receivers, rooms[n].sender)

\* A sender join has demoted the previous sender into a room that already
\* had a receiver
C32_Witness ==
    /\ JoinedAs(last, "sender")
    /\ SenderOf(rooms, "home") = last.ws
    /\ Cardinality(ReceiversOf(rooms, "home")) = 2
    /\ \E old \in ReceiversOf(rooms, "home") :
          SentMsg(sent, old, [type |-> "role-changed", newRole |-> "receiver"])

\* C33: every socket is the sender or a receiver of at most one room, and
\* that room is the one its roomName names.
C33_MemberOfOneRoom ==
    \A s \in DOMAIN socketMeta :
       LET memberOf == {n \in DOMAIN rooms :
                           rooms[n].sender = s \/ s \in ReceiversOf(rooms, n)}
       IN  /\ Cardinality(memberOf) <= 1
           /\ \A n \in memberOf : socketMeta[s].roomName = n

\* C34: every socket a room references, as sender or among its receivers,
\* is a connection that has not closed and has an entry in socketMeta.
C34_RoomsReferenceLiveSockets ==
    \A n \in DOMAIN rooms :
       \A s \in (ReceiversOf(rooms, n) \cup {rooms[n].sender}) \ {NoSocket} :
          s \in DOMAIN socketMeta /\ readyState[s] \in Live

\* C35: on every connection the page sends register-id before its join and
\* before any negotiation message: in what a page has in flight, a join or a
\* negotiation message comes after the page's register-id unless the hub
\* has handled that already; whenever the hub has handled a join or a
\* negotiation message of a connection, that connection's identity is
\* registered; and every negotiation message the hub forwards carries a
\* defined "from", every receiver-left a defined peerId.
C35_IdentityBeforeTraffic ==
    /\ \A s \in DOMAIN socketMeta :
         \A j \in 1..Len(page[s].outbox) :
            page[s].outbox[j].type \in NegTypes \cup {"join"} =>
               \/ socketMeta[s].peerId = PeerIdOf(s)
               \/ \E i \in 1..(j - 1) :
                     page[s].outbox[i] =
                        [type |-> "register-id", peerId |-> PeerIdOf(s)]
    /\ (last.op = "message" /\ last.msg.type \in NegTypes \cup {"join"})
          => socketMeta[last.ws].peerId = PeerIdOf(last.ws)
    /\ \A i \in 1..Len(sent) :
          /\ sent[i].msg.type \in NegTypes => ~Falsy(sent[i].msg.from)
          /\ sent[i].msg.type = "receiver-left" => ~Falsy(sent[i].msg.peerId)

\* The connection of a page that was demoted to receiver has closed, and
\* the room's sender is told which identity left
C35_Witness ==
    /\ last.op = "close"
    /\ \E i \in 1..Len(sent) :
          sent[i].msg = [type |-> "receiver-left", peerId |-> PeerIdOf(last.ws)]

\* C36: client and hub complete the offer handshake: while no connection
\* has closed or started to close, the offer a sender page sent in reply to
\* a receiver's nudge, whose "to" is that receiver's identity, is delivered
\* by the hub to the connection registered under that identity and to no
\* other.
C36_OfferReachesItsReceiver ==
    (/\ Handled(last, "offer")
     /\ \A s \in Sessions : readyState[s] \in {"UNBORN", "OPEN"})
    => Recipients(sent) =
          {s \in DOMAIN socketMeta : socketMeta[s].peerId = last.msg.to}

=============================================================================
